---- MODULE Spec2Model ----
(***************************************************************************)
(* Expense Tracker: the ledger store (utils/storage.js) and the commands   *)
(* that read and write it (commands/add.js, update.js, delete.js,          *)
(* category.js, budget.js, list.js) plus the dashboard's writers (gui.js). *)
(*                                                                         *)
(* Every command-line invocation is one process: loading the command       *)
(* module runs `new Storage(...)` (the constructor), then the command      *)
(* body runs to completion or to process.exit(1).  One action of the model *)
(* is one such invocation.  The ledger file and its .backup sibling are    *)
(* the only state that survives an invocation.                             *)
(*                                                                         *)
(* The fs calls are modelled by what they do to the two files; a call may  *)
(* fail (the `fault` input of an action names the failing call).  Errors   *)
(* are named after the class the throw site names.                         *)
(***************************************************************************)
EXTENDS Integers, Sequences, FiniteSets, TLC

\* ---------------------------------------------------------------- bounds
MaxId == 2          \* cap on metadata.lastId
MaxExpenses == 1    \* cap on the number of expenses stored at once
MaxFaults == 1      \* cap on the number of failing fs calls in a behaviour
MaxClock == 1       \* cap on the dashboard's Date.now() readings
MaxProcs == 2       \* cap on the command-line processes running at once
MaxReportExpenses == 2  \* cap on the expenses of a ledger the reports are run on
MaxRaceId == 3      \* cap on metadata.lastId when concurrent adds start
MaxDepth == 3       \* nested initialize calls are counted up to "MaxDepth or more"
MaxDailyExpenses == 3   \* cap on the expenses of a ledger the daily figures are taken of

\* ------------------------------------------------------ program constants
DEFAULT_CATEGORIES == {"food", "transport", "utilities", "entertainment"}
Uncategorized == "uncategorized"
CurrentYear == 2026
CurrentMonth == 4
\* new Date() at the time of the invocations: year, month (1-12), day
Today == [year |-> CurrentYear, month |-> CurrentMonth, day |-> 3]

\* ------------------------------------------------------------ input sets
DescInputs == {"  ", "ab", " Lunch "}
AmountInputs == {0, 5}
ExpenseCatInputs == {Uncategorized, "food", "transport"}
CategoryNameInputs == {"", "food"}
MonthInputs == {"0", "3"}
BudgetInputs == {0, 50}
NaNId == 0 - 1      \* Number(id) of a non-numeric id text
IdInputs == (1..MaxId) \cup {NaNId}
\* the fs call that fails inside writeData, if any
WriteFaults == {"none", "bkread", "bkwrite", "write", "writeTorn"}

\* String.prototype.trim on the description inputs
Trim(d) ==
  CASE d = "  " -> ""
    [] d = " Lunch " -> "Lunch"
    [] OTHER -> d

\* Number(month) on the month inputs
MonthNumber(m) ==
  CASE m = "0" -> 0
    [] m = "3" -> 3
    [] m = "03" -> 3
    [] m = "4" -> 4
    [] OTHER -> 0

EmptyFn == [x \in {} |-> 0]
Put(f, k, v) == [x \in (DOMAIN f) \cup {k} |-> IF x = k THEN v ELSE f[x]]

\* ------------------------------------------------------------- documents
\* budgets is one object: byYear holds its year keys (each a table from the
\* month as typed to the amount), byLabel its other keys.
\* { expenses: [] } : what ensureFileExists saves
LegacyData ==
  [expenses |-> <<>>,
   categories |-> [present |-> FALSE, keys |-> {}],
   budgets |-> [present |-> FALSE, byYear |-> EmptyFn, byLabel |-> EmptyFn],
   metadata |-> [present |-> FALSE, lastId |-> 0]]

\* defaultData of initialize()
DefaultData ==
  [expenses |-> <<>>,
   categories |-> [present |-> TRUE, keys |-> {}],
   budgets |-> [present |-> TRUE, byYear |-> EmptyFn, byLabel |-> EmptyFn],
   metadata |-> [present |-> TRUE, lastId |-> 0]]

AbsentFile == [kind |-> "absent", doc |-> LegacyData]
CorruptFile == [kind |-> "corrupt", doc |-> LegacyData]
OkFile(d) == [kind |-> "ok", doc |-> d]

VARIABLES
  file,        \* data/expenses.json
  backup,      \* data/expenses.json.backup
  res,         \* outcome of the last invocation
  assigned,    \* ids handed out by successful add invocations, in order
  everIds,     \* ids of every expense that was ever persisted
  faults,      \* number of fs calls that have failed so far
  clock,       \* last Date.now() reading of the dashboard
  procs,       \* the command-line processes that run at once: where each
               \* stands and what it holds in memory
  out          \* what the last read-side invocation printed

vars == <<file, backup, res, assigned, everIds, faults, clock, procs, out>>

Procs == 1..MaxProcs
NoExpense ==
  [id |-> 0, strId |-> FALSE, description |-> "", amount |-> 0, category |-> "",
   date |-> Today, tags |-> <<>>, notes |-> ""]
NotStarted ==
  [pc |-> "idle", kind |-> "ok", why |-> "none", data |-> LegacyData, expense |-> NoExpense,
   depth |-> 0]
NoOutput == [op |-> "none"]

Init ==
  /\ file \in {AbsentFile, OkFile(DefaultData)}
  /\ backup = AbsentFile
  /\ res = [op |-> "none", kind |-> "ok", why |-> "none", fault |-> "none", dirty |-> FALSE, wrote |-> FALSE]
  /\ assigned = <<>>
  /\ everIds = {}
  /\ faults = 0
  /\ clock = 0
  /\ procs = [p \in Procs |-> NotStarted]
  /\ out = NoOutput

\* --------------------------------------------------------------- Storage
\* constructor -> ensureFileExists -> saveData({ expenses: [] })
Constructor(f) == IF f.kind = "absent" THEN OkFile(LegacyData) ELSE f

\* initialize(): nothing to do when the file exists; when it is absent the
\* default branch calls writeData, which calls initialize again.
Initialize(f) == IF f.kind = "absent" THEN "recurses" ELSE "ok"

\* readData(): initialize, readFile, JSON.parse
ReadData(f, readFails) ==
  IF Initialize(f) # "ok"
    THEN [ok |-> FALSE, why |-> "InitializeRecursion", data |-> LegacyData]
  ELSE IF readFails
    THEN [ok |-> FALSE, why |-> "ReadFailed", data |-> LegacyData]
  ELSE IF f.kind = "corrupt"
    THEN [ok |-> FALSE, why |-> "CorruptFormat", data |-> LegacyData]
  ELSE [ok |-> TRUE, why |-> "none", data |-> f.doc]

\* JSON.stringify(data, null, 2): the text holds the keys the object has.  A
\* key appears as <<value>>, a key the object lacks as << >>.
\* variant: a key whose value is falsy (lastId 0) is left out of the text
StringifyTruthy(data) ==
  [expenses |-> [i \in 1..Len(data.expenses) |->
                   [k \in DOMAIN data.expenses[i] |-> data.expenses[i][k]]],
   categories |-> IF data.categories.present THEN <<data.categories.keys>> ELSE << >>,
   budgets |-> IF data.budgets.present
                 THEN <<[byYear |-> data.budgets.byYear, byLabel |-> data.budgets.byLabel]>>
                 ELSE << >>,
   metadata |-> IF data.metadata.present /\ data.metadata.lastId # 0
                  THEN <<data.metadata.lastId>> ELSE << >>]

Stringify(data) ==
  [expenses |-> [i \in 1..Len(data.expenses) |->
                   [k \in DOMAIN data.expenses[i] |-> data.expenses[i][k]]],
   categories |-> IF data.categories.present THEN <<data.categories.keys>> ELSE << >>,
   budgets |-> IF data.budgets.present
                 THEN <<[byYear |-> data.budgets.byYear, byLabel |-> data.budgets.byLabel]>>
                 ELSE << >>,
   metadata |-> IF data.metadata.present THEN <<data.metadata.lastId>> ELSE << >>]

\* JSON.parse(text): an object with the keys of the text
Parse(text) ==
  [expenses |-> text.expenses,
   categories |-> IF text.categories = << >> THEN [present |-> FALSE, keys |-> {}]
                  ELSE [present |-> TRUE, keys |-> text.categories[1]],
   budgets |-> IF text.budgets = << >>
                 THEN [present |-> FALSE, byYear |-> EmptyFn, byLabel |-> EmptyFn]
                 ELSE [present |-> TRUE, byYear |-> text.budgets[1].byYear,
                       byLabel |-> text.budgets[1].byLabel],
   metadata |-> IF text.metadata = << >> THEN [present |-> FALSE, lastId |-> 0]
                ELSE [present |-> TRUE, lastId |-> text.metadata[1]]]

\* the document a reader finds after fs.writeFile(path, JSON.stringify(data))
Persisted(data) == OkFile(Parse(Stringify(data)))

\* variant: the write keeps the persisted expenses the writer does not hold
WriteDataMerge(f, b, data, fault) ==
  LET existing == ReadData(f, fault = "bkread")
      b1 == IF existing.ok THEN OkFile(existing.data) ELSE b
      held(e) == \E i \in 1..Len(data.expenses) : data.expenses[i] = e
      kept == IF existing.ok THEN SelectSeq(existing.data.expenses, LAMBDA e : ~held(e))
              ELSE <<>>
  IN  IF Initialize(f) # "ok"
        THEN [file |-> f, backup |-> b, ok |-> FALSE, why |-> "InitializeRecursion"]
      ELSE IF existing.ok /\ fault = "bkwrite"
        THEN [file |-> f, backup |-> b, ok |-> FALSE, why |-> "BackupFailed"]
      ELSE IF fault = "write"
        THEN [file |-> f, backup |-> b1, ok |-> FALSE, why |-> "WriteFailed"]
      ELSE IF fault = "writeTorn"
        THEN [file |-> CorruptFile, backup |-> b1, ok |-> FALSE, why |-> "WriteFailed"]
      ELSE [file |-> Persisted([data EXCEPT !.expenses = kept \o @]), backup |-> b1,
            ok |-> TRUE, why |-> "none"]

\* writeData(data): backup of the readable existing document, then the write
WriteData(f, b, data, fault) ==
  LET existing == ReadData(f, fault = "bkread")
      b1 == IF existing.ok THEN OkFile(existing.data) ELSE b
  IN  IF Initialize(f) # "ok"
        THEN [file |-> f, backup |-> b, ok |-> FALSE, why |-> "InitializeRecursion"]
      ELSE IF existing.ok /\ fault = "bkwrite"
        THEN [file |-> f, backup |-> b, ok |-> FALSE, why |-> "BackupFailed"]
      ELSE IF fault = "write"
        THEN [file |-> f, backup |-> b1, ok |-> FALSE, why |-> "WriteFailed"]
      ELSE IF fault = "writeTorn"
        THEN [file |-> CorruptFile, backup |-> b1, ok |-> FALSE, why |-> "WriteFailed"]
      ELSE [file |-> Persisted(data), backup |-> b1, ok |-> TRUE, why |-> "none"]

\* variant: the next id is one more than the largest id still stored
GetNextIdFromStored(f, readFails) ==
  LET r == ReadData(f, readFails)
      ids == {r.data.expenses[i].id : i \in 1..Len(r.data.expenses)}
      top == IF ids = {} THEN 0 ELSE CHOOSE m \in ids : \A x \in ids : m >= x
  IN  IF ~r.ok THEN [ok |-> FALSE, kind |-> "StorageError", why |-> r.why, id |-> 0]
      ELSE IF ~r.data.metadata.present
        THEN [ok |-> FALSE, kind |-> "TypeError", why |-> "MetadataMissing", id |-> 0]
      ELSE [ok |-> TRUE, kind |-> "ok", why |-> "none", id |-> top + 1]

\* getNextId(): reads the file again
GetNextId(f, readFails) ==
  LET r == ReadData(f, readFails)
  IN  IF ~r.ok THEN [ok |-> FALSE, kind |-> "StorageError", why |-> r.why, id |-> 0]
      ELSE IF ~r.data.metadata.present
        THEN [ok |-> FALSE, kind |-> "TypeError", why |-> "MetadataMissing", id |-> 0]
      ELSE [ok |-> TRUE, kind |-> "ok", why |-> "none", id |-> r.data.metadata.lastId + 1]

\* no invocation's outcome is pending: the previous process has exited
Idle == res.op = "none"

\* the fs failures the environment may still cause
ReadFaultChoices == IF faults < MaxFaults THEN BOOLEAN ELSE {FALSE}
WriteFaultChoices == IF faults < MaxFaults THEN WriteFaults ELSE {"none"}

\* ------------------------------------------------------ outcome plumbing
\* variant: the failing invocation flushes what it changed in memory
FailFlush(op, f, mem, kind, why, fault, dirty) ==
  /\ file' = IF dirty THEN OkFile(mem) ELSE f
  /\ backup' = backup
  /\ res' = [op |-> op, kind |-> kind, why |-> why, fault |-> fault,
             dirty |-> dirty, wrote |-> FALSE]
  /\ faults' = IF fault = "none" THEN faults ELSE faults + 1

\* catch (error) { console.error(...); process.exit(1) }: the invocation ends
\* without calling writeData; mem is the in-memory data at the throw, dirty
\* tells whether it differs from what was read
Fail(op, f, mem, kind, why, fault, dirty) ==
  /\ file' = f
  /\ backup' = backup
  /\ res' = [op |-> op, kind |-> kind, why |-> why, fault |-> fault,
             dirty |-> dirty, wrote |-> FALSE]
  /\ faults' = IF fault = "none" THEN faults ELSE faults + 1

\* the invocation ends normally without calling writeData
Done(op, f) ==
  /\ file' = f
  /\ backup' = backup
  /\ res' = [op |-> op, kind |-> "ok", why |-> "none", fault |-> "none",
             dirty |-> FALSE, wrote |-> FALSE]
  /\ faults' = faults

\* the invocation called writeData, whose result is w
Written(op, w, fault, dirty) ==
  /\ file' = w.file
  /\ backup' = w.backup
  /\ res' = [op |-> op,
             kind |-> IF w.ok THEN "ok" ELSE "StorageError",
             why |-> w.why,
             fault |-> fault,
             dirty |-> (~w.ok) /\ dirty,
             wrote |-> w.ok]
  /\ faults' = IF fault = "none" THEN faults ELSE faults + 1

\* expenses.findIndex(e => e.id === expenseId)
IndexOfId(expenses, id) ==
  IF \E i \in 1..Len(expenses) : ~expenses[i].strId /\ expenses[i].id = id
    THEN CHOOSE i \in 1..Len(expenses) :
           /\ ~expenses[i].strId /\ expenses[i].id = id
           /\ \A j \in 1..(i-1) : ~(~expenses[j].strId /\ expenses[j].id = id)
    ELSE 0

\* expenses.splice(i, 1)
RemoveAt(s, i) == [j \in 1..(Len(s) - 1) |-> IF j < i THEN s[j] ELSE s[j + 1]]

\* ------------------------------------------------------------------- add
\* Expense.validate(): the first rule that rejects, "none" if none does
Validate(desc, amount) ==
  IF amount <= 0 THEN "AmountInvalid"
  ELSE IF desc = "" THEN "DescRequired"
  ELSE IF Len(desc) < 3 THEN "DescTooShort"
  ELSE "none"

\* variant: the push without the high-water mark update
PushExpenseOnly(data, expense) ==
  [data EXCEPT !.expenses = Append(@, expense)]

\* data.expenses.push(expense); data.metadata.lastId = expense.id
PushExpense(data, expense) ==
  [data EXCEPT !.expenses = Append(@, expense), !.metadata.lastId = expense.id]

Add(description, amount, category) ==
  LET f0 == Constructor(file)
      desc == Trim(description)
  IN  /\ Idle
      /\ \E rf \in ReadFaultChoices :
           LET r == ReadData(f0, rf)
               data == r.data
           IN  /\ ~(r.ok /\ data.metadata.present /\ data.metadata.lastId >= MaxId)
               /\ ~(r.ok /\ Len(data.expenses) >= MaxExpenses)
               /\ UNCHANGED <<clock, procs, out>>
               /\ IF ~r.ok THEN
                    /\ Fail("add", f0, f0.doc, "StorageError", r.why,
                         IF rf THEN "read" ELSE "none", FALSE)
                    /\ UNCHANGED <<assigned, everIds>>
                  ELSE IF ~data.categories.present THEN
                    /\ Fail("add", f0, f0.doc, "ValidationError", "NoCategories", "none", FALSE)
                    /\ UNCHANGED <<assigned, everIds>>
                  ELSE IF category # Uncategorized /\ category \notin data.categories.keys THEN
                    /\ Fail("add", f0, f0.doc, "ValidationError", "CategoryMissing", "none", FALSE)
                    /\ UNCHANGED <<assigned, everIds>>
                  ELSE IF Validate(desc, amount) # "none" THEN
                    /\ Fail("add", f0, f0.doc, "ValidationError", Validate(desc, amount), "none", FALSE)
                    /\ UNCHANGED <<assigned, everIds>>
                  ELSE
                    \E rf2 \in ReadFaultChoices :
                      LET nid == GetNextId(f0, rf2)
                          expense == [id |-> nid.id, strId |-> FALSE, description |-> desc,
                                      amount |-> amount, category |-> category,
                                      date |-> Today, tags |-> <<>>, notes |-> ""]
                      IN  IF ~nid.ok THEN
                            /\ Fail("add", f0, f0.doc, nid.kind, nid.why,
                                    IF rf2 THEN "idread" ELSE "none", FALSE)
                            /\ UNCHANGED <<assigned, everIds>>
                          ELSE
                            \E wf \in WriteFaultChoices :
                              LET w == WriteData(f0, backup, PushExpense(data, expense), wf)
                              IN  /\ Written("add", w, wf, TRUE)
                                  /\ assigned' = IF w.ok THEN Append(assigned, nid.id)
                                                 ELSE assigned
                                  /\ everIds' = IF w.ok THEN everIds \cup {nid.id}
                                                ELSE everIds

\* ---------------------------------------------------------------- update
\* variant: the category is assigned without the registry lookup
UpdateFieldsUnchecked(data, e0, descOpt, amountOpt, catOpt) ==
  LET e1 == IF descOpt # <<>> THEN [e0 EXCEPT !.description = Trim(descOpt[1])] ELSE e0
      e2 == IF amountOpt # <<>> THEN [e1 EXCEPT !.amount = amountOpt[1]] ELSE e1
      e3 == IF catOpt # <<>> THEN [e2 EXCEPT !.category = catOpt[1]] ELSE e2
  IN  IF descOpt # <<>> /\ Trim(descOpt[1]) = ""
        THEN [kind |-> "ValidationError", why |-> "DescEmpty", expense |-> e0]
      ELSE IF amountOpt # <<>> /\ amountOpt[1] <= 0
        THEN [kind |-> "ValidationError", why |-> "AmountInvalid", expense |-> e1]
      ELSE [kind |-> "ok", why |-> "none", expense |-> e3]

\* description, amount and category are optional: <<>> is `undefined`.
\* The field updates of one expense, in the order the code makes them: the
\* first failing check, the expense as it stands in memory at that point.
UpdateFields(data, e0, descOpt, amountOpt, catOpt) ==
  LET e1 == IF descOpt # <<>> THEN [e0 EXCEPT !.description = Trim(descOpt[1])] ELSE e0
      e2 == IF amountOpt # <<>> THEN [e1 EXCEPT !.amount = amountOpt[1]] ELSE e1
      e3 == IF catOpt # <<>> THEN [e2 EXCEPT !.category = catOpt[1]] ELSE e2
      catLookup == catOpt # <<>> /\ catOpt[1] # Uncategorized
  IN  IF descOpt # <<>> /\ Trim(descOpt[1]) = ""
        THEN [kind |-> "ValidationError", why |-> "DescEmpty", expense |-> e0]
      ELSE IF amountOpt # <<>> /\ amountOpt[1] <= 0
        THEN [kind |-> "ValidationError", why |-> "AmountInvalid", expense |-> e1]
      ELSE IF catLookup /\ ~data.categories.present
        THEN [kind |-> "TypeError", why |-> "CategoriesMissing", expense |-> e2]
      ELSE IF catLookup /\ catOpt[1] \notin data.categories.keys
        THEN [kind |-> "ValidationError", why |-> "CategoryMissing", expense |-> e2]
      ELSE [kind |-> "ok", why |-> "none", expense |-> e3]

Optional(S) == {<<>>} \cup {<<x>> : x \in S}

Update(id) ==
  LET f0 == Constructor(file)
  IN  /\ Idle
      /\ UNCHANGED <<assigned, everIds, clock, procs, out>>
      /\ IF id = NaNId THEN
           Fail("update", f0, f0.doc, "ValidationError", "IdInvalid", "none", FALSE)
         ELSE
           \E rf \in ReadFaultChoices :
             LET r == ReadData(f0, rf)
                 data == r.data
                 i == IndexOfId(data.expenses, id)
             IN  IF ~r.ok THEN
                   Fail("update", f0, f0.doc, "StorageError", r.why,
                        IF rf THEN "read" ELSE "none", FALSE)
                 ELSE IF i = 0 THEN
                   Fail("update", f0, f0.doc, "ValidationError", "NotFound", "none", FALSE)
                 ELSE
                   \E descOpt \in Optional(DescInputs),
                      amountOpt \in Optional(AmountInputs),
                      catOpt \in Optional(ExpenseCatInputs) :
                     LET e0 == data.expenses[i]
                         u == UpdateFields(data, e0, descOpt, amountOpt, catOpt)
                         data1 == [data EXCEPT !.expenses[i] = u.expense]
                     IN  IF u.kind # "ok" THEN
                           Fail("update", f0, data1, u.kind, u.why, "none", u.expense # e0)
                         ELSE
                           \E wf \in WriteFaultChoices :
                             Written("update", WriteData(f0, backup, data1, wf), wf,
                                     u.expense # e0)

\* ---------------------------------------------------------------- delete
DeleteExpense(id) ==
  LET f0 == Constructor(file)
  IN  /\ Idle
      /\ UNCHANGED <<assigned, everIds, clock, procs, out>>
      /\ IF id = NaNId THEN
           Fail("delete", f0, f0.doc, "ValidationError", "IdInvalid", "none", FALSE)
         ELSE
           \E rf \in ReadFaultChoices :
             LET r == ReadData(f0, rf)
                 data == r.data
                 i == IndexOfId(data.expenses, id)
                 data1 == [data EXCEPT !.expenses = RemoveAt(@, i)]
             IN  IF ~r.ok THEN
                   Fail("delete", f0, f0.doc, "StorageError", r.why,
                      IF rf THEN "read" ELSE "none", FALSE)
                 ELSE IF i = 0 THEN
                   Fail("delete", f0, f0.doc, "ValidationError", "NotFound", "none", FALSE)
                 ELSE
                   \E wf \in WriteFaultChoices :
                     Written("delete", WriteData(f0, backup, data1, wf), wf, TRUE)

\* -------------------------------------------------------------- category
\* if (!data.categories) data.categories = DEFAULT_CATEGORIES
CategoriesOrDefault(data) ==
  IF data.categories.present THEN data.categories.keys ELSE DEFAULT_CATEGORIES

AddCategory(name) ==
  LET f0 == Constructor(file)
  IN  /\ Idle
      /\ UNCHANGED <<assigned, everIds, clock, procs, out>>
      /\ IF name = "" THEN
           Fail("addCategory", f0, f0.doc, "ValidationError", "NameRequired", "none", FALSE)
         ELSE
           \E rf \in ReadFaultChoices :
             LET r == ReadData(f0, rf)
                 data == r.data
                 keys == CategoriesOrDefault(data)
                 data1 == [data EXCEPT !.categories =
                                          [present |-> TRUE, keys |-> keys \cup {name}]]
             IN  IF ~r.ok THEN
                   Fail("addCategory", f0, f0.doc, "StorageError", r.why,
                        IF rf THEN "read" ELSE "none", FALSE)
                 ELSE IF name \in keys THEN
                   Fail("addCategory", f0,
                        [data EXCEPT !.categories = [present |-> TRUE, keys |-> keys]],
                        "ValidationError", "DuplicateCategory", "none",
                        ~data.categories.present)
                 ELSE
                   \E wf \in WriteFaultChoices :
                     Written("addCategory", WriteData(f0, backup, data1, wf), wf, TRUE)

ListCategories ==
  LET f0 == Constructor(file)
  IN  /\ Idle
      /\ UNCHANGED <<assigned, everIds, clock, procs, out>>
      /\ \E rf \in ReadFaultChoices :
           LET r == ReadData(f0, rf)
               data == r.data
               data1 == [data EXCEPT !.categories =
                                        [present |-> TRUE, keys |-> DEFAULT_CATEGORIES]]
           IN  IF ~r.ok THEN
                 Fail("listCategories", f0, f0.doc, "StorageError", r.why,
                      IF rf THEN "read" ELSE "none", FALSE)
               ELSE IF ~data.categories.present THEN
                 \E wf \in WriteFaultChoices :
                   Written("listCategories", WriteData(f0, backup, data1, wf), wf, TRUE)
               ELSE
                 Done("listCategories", f0)

\* variant: no expense is ever found to reference the category
InUseNever(data, name) == FALSE

\* data.expenses.some(expense => expense.category === name)
InUse(data, name) ==
  \E i \in 1..Len(data.expenses) : data.expenses[i].category = name

DeleteCategory(name) ==
  LET f0 == Constructor(file)
  IN  /\ Idle
      /\ UNCHANGED <<assigned, everIds, clock, procs, out>>
      /\ \E rf \in ReadFaultChoices :
           LET r == ReadData(f0, rf)
               data == r.data
               data1 == [data EXCEPT !.categories.keys = @ \ {name}]
           IN  IF ~r.ok THEN
                 Fail("deleteCategory", f0, f0.doc, "StorageError", r.why,
                      IF rf THEN "read" ELSE "none", FALSE)
               ELSE IF ~(data.categories.present /\ name \in data.categories.keys) THEN
                 Fail("deleteCategory", f0, f0.doc, "ValidationError", "CategoryNotFound",
                      "none", FALSE)
               ELSE IF InUse(data, name) THEN
                 Fail("deleteCategory", f0, f0.doc, "ValidationError", "CategoryInUse",
                      "none", FALSE)
               ELSE
                 \E wf \in WriteFaultChoices :
                   Written("deleteCategory", WriteData(f0, backup, data1, wf), wf, TRUE)

\* ---------------------------------------------------------------- budget
\* if (!data.budgets) data.budgets = {}; if (!data.budgets[year]) ... = {};
\* data.budgets[year][month] = budgetAmount
WithBudget(data, month, amount) ==
  LET by0 == IF data.budgets.present THEN data.budgets.byYear ELSE EmptyFn
      by1 == IF CurrentYear \in DOMAIN by0 THEN by0
             ELSE Put(by0, CurrentYear, EmptyFn)
      by2 == [by1 EXCEPT ![CurrentYear] = Put(@, month, amount)]
  IN  [data EXCEPT !.budgets = [@ EXCEPT !.present = TRUE, !.byYear = by2]]

SetBudget(month, amount) ==
  LET f0 == Constructor(file)
      monthNum == MonthNumber(month)
  IN  /\ Idle
      /\ UNCHANGED <<assigned, everIds, clock, procs, out>>
      /\ IF monthNum < 1 \/ monthNum > 12 THEN
           Fail("setBudget", f0, f0.doc, "ValidationError", "MonthInvalid", "none", FALSE)
         ELSE IF amount <= 0 THEN
           Fail("setBudget", f0, f0.doc, "ValidationError", "BudgetInvalid", "none", FALSE)
         ELSE
           \E rf \in ReadFaultChoices :
             LET r == ReadData(f0, rf)
                 data == r.data
                 data1 == WithBudget(data, month, amount)
             IN  IF ~r.ok THEN
                   Fail("setBudget", f0, f0.doc, "StorageError", r.why,
                      IF rf THEN "read" ELSE "none", FALSE)
                 ELSE
                   \E wf \in WriteFaultChoices :
                     Written("setBudget", WriteData(f0, backup, data1, wf), wf, TRUE)

\* ------------------------------------------------- a crash inside writeData
\* The process is killed inside writeData(data): before the backup is
\* written, while fs.writeFile writes the backup (the file is left
\* truncated), between the two writes, while the document is written, or
\* after it.  readFails: the readData that feeds the backup fails and is
\* swallowed by .catch(() => null), so no backup is written.
CrashPoints == {"beforeBackup", "duringBackup", "afterBackup", "duringWrite", "afterWrite"}

WriteDataCrash(f, b, data, readFails, point) ==
  LET existing == ReadData(f, readFails)
      b1 == IF existing.ok THEN OkFile(existing.data) ELSE b
  IN  IF point = "beforeBackup" THEN [file |-> f, backup |-> b]
      ELSE IF point = "duringBackup"
        THEN [file |-> f, backup |-> IF existing.ok THEN CorruptFile ELSE b]
      ELSE IF point = "afterBackup" THEN [file |-> f, backup |-> b1]
      ELSE IF point = "duringWrite" THEN [file |-> CorruptFile, backup |-> b1]
      ELSE [file |-> Persisted(data), backup |-> b1]

\* `budget set` killed inside its writeData
SetBudgetCrash(month, amount, point) ==
  LET f0 == Constructor(file)
      monthNum == MonthNumber(month)
      r == ReadData(f0, FALSE)
      data1 == WithBudget(r.data, month, amount)
  IN  /\ Idle
      /\ monthNum \in 1..12
      /\ amount > 0
      /\ r.ok
      /\ UNCHANGED <<assigned, everIds, clock, procs, out>>
      /\ \E rf \in ReadFaultChoices :
           LET w == WriteDataCrash(f0, backup, data1, rf, point)
           IN  /\ file' = w.file
               /\ backup' = w.backup
               /\ res' = [op |-> "setBudget", kind |-> "Crash", why |-> point,
                          fault |-> IF rf THEN "bkread" ELSE "none",
                          dirty |-> FALSE, wrote |-> point = "afterWrite"]
               /\ faults' = IF rf THEN faults + 1 ELSE faults

\* ------------------------------------------------------------------ list
\* reads, sorts the in-memory array, prints; never writes
List ==
  LET f0 == Constructor(file)
  IN  /\ Idle
      /\ UNCHANGED <<assigned, everIds, clock, procs, out>>
      /\ \E rf \in ReadFaultChoices :
           LET r == ReadData(f0, rf)
           IN  IF ~r.ok THEN Fail("list", f0, f0.doc, "StorageError", r.why,
                      IF rf THEN "read" ELSE "none", FALSE)
               ELSE Done("list", f0)

\* ------------------------------------------------------------- dashboard
\* the category list of the dashboard's add form offers fixed labels
DashCategoryInputs == {"Other"}

\* loadData(): any read or parse error yields { expenses: [] }
LoadData(f, readFails) ==
  IF readFails \/ f.kind # "ok" THEN LegacyData ELSE f.doc

\* saveData(data): one writeFileSync, no backup
SaveData(f, data, fault) ==
  IF fault = "write" THEN [file |-> f, ok |-> FALSE]
  ELSE IF fault = "writeTorn" THEN [file |-> CorruptFile, ok |-> FALSE]
  ELSE [file |-> Persisted(data), ok |-> TRUE]

SaveFaultChoices == IF faults < MaxFaults THEN {"none", "write", "writeTorn"} ELSE {"none"}

\* submitForm of the add form, then Storage.addExpense(expense)
DashAddExpense(description, amount, category) ==
  LET f0 == Constructor(file)
      desc == Trim(description)
  IN  /\ Idle
      /\ UNCHANGED <<assigned, everIds, procs, out>>
      /\ IF desc = "" THEN
           /\ Fail("dashAdd", f0, f0.doc, "FormError", "DescRequired", "none", FALSE)
           /\ UNCHANGED clock
         ELSE IF amount <= 0 THEN
           /\ Fail("dashAdd", f0, f0.doc, "FormError", "AmountInvalid", "none", FALSE)
           /\ UNCHANGED clock
         ELSE
           \E rf \in ReadFaultChoices, t \in clock..MaxClock :
             LET data == LoadData(f0, rf)
                 newExpense == [id |-> t, strId |-> TRUE, description |-> desc,
                                amount |-> amount, category |-> category,
                                date |-> Today]
                 data1 == [data EXCEPT !.expenses = Append(@, newExpense)]
             IN  /\ Len(data.expenses) < MaxExpenses
                 /\ clock' = t
                 /\ \E sf \in (IF rf THEN {"none"} ELSE SaveFaultChoices) :
                      LET w == SaveData(f0, data1, sf)
                      IN  /\ file' = w.file
                          /\ backup' = backup
                          /\ res' = [op |-> "dashAdd",
                                     kind |-> IF w.ok THEN "ok" ELSE "Error",
                                     why |-> IF w.ok THEN "none" ELSE "SaveFailed",
                                     fault |-> IF rf THEN "read" ELSE sf,
                                     dirty |-> ~w.ok,
                                     wrote |-> w.ok]
                          /\ faults' = IF rf \/ sf # "none" THEN faults + 1 ELSE faults

\* the process exits; its outcome has been reported to the caller
Exit ==
  /\ ~Idle
  /\ res' = [op |-> "none", kind |-> "ok", why |-> "none", fault |-> "none", dirty |-> FALSE, wrote |-> FALSE]
  /\ out' = NoOutput
  /\ UNCHANGED <<file, backup, assigned, everIds, faults, clock, procs>>

Next ==
  \/ \E d \in DescInputs, a \in AmountInputs, c \in ExpenseCatInputs : Add(d, a, c)
  \/ \E id \in IdInputs : Update(id)
  \/ \E id \in IdInputs : DeleteExpense(id)
  \/ \E n \in CategoryNameInputs : AddCategory(n)
  \/ ListCategories
  \/ \E n \in CategoryNameInputs : DeleteCategory(n)
  \/ \E m \in MonthInputs, a \in BudgetInputs : SetBudget(m, a)
  \/ List
  \/ Exit

Spec == Init /\ [][Next]_vars

\* the command line and the dashboard working on the same ledger
NextDash ==
  \/ Next
  \/ \E d \in DescInputs, a \in AmountInputs, c \in DashCategoryInputs : DashAddExpense(d, a, c)

SpecDash == Init /\ [][NextDash]_vars

\* the command line, with invocations that are killed inside writeData
NextCrash ==
  \/ Next
  \/ \E m \in MonthInputs, a \in BudgetInputs, pt \in CrashPoints : SetBudgetCrash(m, a, pt)

SpecCrash == Init /\ [][NextCrash]_vars

\* ---------------------------------------------------------------- round trip
\* writeData(await readData()): the document read is written back as read
RoundTrip ==
  LET f0 == Constructor(file)
  IN  /\ Idle
      /\ UNCHANGED <<assigned, everIds, clock, procs, out>>
      /\ \E rf \in ReadFaultChoices, wf \in WriteFaultChoices :
           LET r == ReadData(f0, rf)
           IN  IF ~r.ok THEN Fail("roundTrip", f0, f0.doc, "StorageError", r.why,
                                  IF rf THEN "read" ELSE "none", FALSE)
               ELSE Written("roundTrip", WriteData(f0, backup, r.data, wf), wf, FALSE)

NextTrip ==
  \/ NextDash
  \/ RoundTrip

SpecTrip == Init /\ [][NextTrip]_vars

\* ----------------------------------------------------- concurrent processes
\* Several `add` invocations run at once.  Each is its own process; the
\* awaits of add (readData, getNextId, writeData) are the points at which
\* another process may run.  All fs calls work.
SetProc(p, r) == procs' = [procs EXCEPT ![p] = r]

\* module load (the constructor), readData and the checks of add
RaceAddRead(p, description, amount, category) ==
  LET f0 == Constructor(file)
      desc == Trim(description)
      r == ReadData(f0, FALSE)
      data == r.data
      stop(kind, why) == [pc |-> "done", kind |-> kind, why |-> why,
                          data |-> data, expense |-> NoExpense, depth |-> 0]
  IN  /\ procs[p].pc = "idle"
      /\ ~(r.ok /\ data.metadata.present /\ data.metadata.lastId >= MaxRaceId)
      /\ file' = f0
      /\ UNCHANGED <<backup, res, assigned, everIds, faults, clock, out>>
      /\ IF ~r.ok THEN SetProc(p, stop("StorageError", r.why))
         ELSE IF ~data.categories.present
           THEN SetProc(p, stop("ValidationError", "NoCategories"))
         ELSE IF category # Uncategorized /\ category \notin data.categories.keys
           THEN SetProc(p, stop("ValidationError", "CategoryMissing"))
         ELSE IF Validate(desc, amount) # "none"
           THEN SetProc(p, stop("ValidationError", Validate(desc, amount)))
         ELSE SetProc(p, [pc |-> "read", kind |-> "ok", why |-> "none", data |-> data,
                          expense |-> [id |-> 0, strId |-> FALSE, description |-> desc,
                                       amount |-> amount, category |-> category,
                                       date |-> Today, tags |-> <<>>, notes |-> ""],
                          depth |-> 0])

\* expense.id = await storage.getNextId(); push; lastId = expense.id
RaceAddNextId(p) ==
  LET me == procs[p]
      nid == GetNextId(file, FALSE)
      expense == [me.expense EXCEPT !.id = nid.id]
  IN  /\ me.pc = "read"
      /\ UNCHANGED <<file, backup, res, assigned, everIds, faults, clock, out>>
      /\ IF ~nid.ok
           THEN SetProc(p, [me EXCEPT !.pc = "done", !.kind = nid.kind, !.why = nid.why])
           ELSE SetProc(p, [me EXCEPT !.pc = "numbered", !.expense = expense,
                                      !.data = PushExpense(me.data, expense)])

\* await storage.writeData(data)
RaceAddWrite(p) ==
  LET me == procs[p]
      w == WriteData(file, backup, me.data, "none")
  IN  /\ me.pc = "numbered"
      /\ file' = w.file
      /\ backup' = w.backup
      /\ assigned' = IF w.ok THEN Append(assigned, me.expense.id) ELSE assigned
      /\ everIds' = IF w.ok THEN everIds \cup {me.expense.id} ELSE everIds
      /\ UNCHANGED <<res, faults, clock, out>>
      /\ SetProc(p, [me EXCEPT !.pc = "done",
                               !.kind = IF w.ok THEN "ok" ELSE "StorageError",
                               !.why = w.why])

\* the process exits; the next invocation is a new process
RaceExit(p) ==
  /\ procs[p].pc = "done"
  /\ SetProc(p, NotStarted)
  /\ UNCHANGED <<file, backup, res, assigned, everIds, faults, clock, out>>

NextRace ==
  \/ \E p \in Procs, d \in DescInputs, a \in AmountInputs, c \in ExpenseCatInputs :
       RaceAddRead(p, d, a, c)
  \/ \E p \in Procs : RaceAddNextId(p)
  \/ \E p \in Procs : RaceAddWrite(p)
  \/ \E p \in Procs : RaceExit(p)

SpecRace == Init /\ [][NextRace]_vars

\* ------------------------------------------------------ initialize, step by step
\* A process builds its Storage and calls initialize().  depth counts the
\* initialize calls that have not returned; MaxDepth stands for "MaxDepth or
\* more".  The awaits are the points at which another process may run.

\* new Storage(path): ensureFileExists -> saveData({ expenses: [] }); a
\* failed write is thrown on and ends the process at module load
StorageNew(p, fault) ==
  LET w == IF file.kind = "absent" THEN SaveData(file, LegacyData, fault)
           ELSE [file |-> file, ok |-> TRUE]
  IN  /\ procs[p].pc = "idle"
      /\ file' = w.file
      /\ faults' = IF w.ok THEN faults ELSE faults + 1
      /\ SetProc(p, IF w.ok THEN [NotStarted EXCEPT !.pc = "constructed"]
                    ELSE [NotStarted EXCEPT !.pc = "crashed", !.kind = "Error",
                                            !.why = "SaveFailed"])
      /\ UNCHANGED <<backup, res, assigned, everIds, clock, out>>

\* storage.initialize() is called; fs.mkdir succeeds
InitializeEnter(p) ==
  /\ procs[p].pc = "constructed"
  /\ SetProc(p, [procs[p] EXCEPT !.pc = "initialize", !.depth = 1])
  /\ UNCHANGED <<file, backup, res, assigned, everIds, faults, clock, out>>

\* the call below the innermost initialize, once that one has returned:
\* none (the caller of the outermost), or the writeData that called it
Return(me) ==
  IF me.depth = 1 THEN {[me EXCEPT !.pc = "returned", !.depth = 0]}
  ELSE IF me.depth = MaxDepth
    THEN {[me EXCEPT !.pc = "writing", !.depth = d] : d \in {MaxDepth - 1, MaxDepth}}
  ELSE {[me EXCEPT !.pc = "writing", !.depth = me.depth - 1]}

\* await fs.access(this.filePath): the file is there, initialize returns;
\* it is not, initialize calls writeData(defaultData)
InitializeAccess(p) ==
  LET me == procs[p]
  IN  /\ me.pc = "initialize"
      /\ UNCHANGED <<file, backup, res, assigned, everIds, faults, clock, out>>
      /\ IF file.kind = "absent"
           THEN SetProc(p, [me EXCEPT !.pc = "writeData"])
           ELSE \E r \in Return(me) : SetProc(p, r)

\* writeData begins with await this.initialize()
WriteDataInitialize(p) ==
  LET me == procs[p]
  IN  /\ me.pc = "writeData"
      /\ SetProc(p, [me EXCEPT !.pc = "initialize",
                               !.depth = IF @ < MaxDepth THEN @ + 1 ELSE MaxDepth])
      /\ UNCHANGED <<file, backup, res, assigned, everIds, faults, clock, out>>

\* the rest of writeData(defaultData) after its initialize has returned:
\* readData for the backup (which calls initialize once more), backup,
\* write; then the initialize that called it returns
WriteDataDefault(p) ==
  LET me == procs[p]
      w == WriteData(file, backup, DefaultData, "none")
  IN  /\ me.pc = "writing"
      /\ UNCHANGED <<res, assigned, everIds, faults, clock, out>>
      /\ IF file.kind = "absent"
           THEN /\ SetProc(p, [me EXCEPT !.pc = "initialize",
                                         !.depth = IF @ < MaxDepth THEN @ + 1 ELSE MaxDepth])
                /\ UNCHANGED <<file, backup>>
           ELSE /\ file' = w.file
                /\ backup' = w.backup
                /\ \E r \in Return(me) : SetProc(p, r)

\* the process goes on to exit
InitializeExit(p) ==
  /\ procs[p].pc \in {"returned", "crashed"}
  /\ SetProc(p, NotStarted)
  /\ UNCHANGED <<file, backup, res, assigned, everIds, faults, clock, out>>

\* the ledger file is removed from outside (the user, a cleanup)
RemoveLedger ==
  /\ file.kind # "absent"
  /\ faults < MaxFaults
  /\ file' = AbsentFile
  /\ faults' = faults + 1
  /\ UNCHANGED <<backup, res, assigned, everIds, clock, procs, out>>

InitializeStep(p) ==
  \/ InitializeEnter(p)
  \/ InitializeAccess(p)
  \/ WriteDataInitialize(p)
  \/ WriteDataDefault(p)

NextInitialize ==
  \/ \E p \in Procs, wf \in SaveFaultChoices : StorageNew(p, wf)
  \/ \E p \in Procs : InitializeEnter(p)
  \/ \E p \in Procs : InitializeAccess(p)
  \/ \E p \in Procs : WriteDataInitialize(p)
  \/ \E p \in Procs : WriteDataDefault(p)
  \/ \E p \in Procs : InitializeExit(p)
  \/ RemoveLedger

\* a process that has been started runs on: every await is resumed
SpecInitialize ==
  /\ Init
  /\ [][NextInitialize]_vars
  /\ \A p \in Procs : WF_vars(InitializeStep(p))

\* ------------------------------------------------------------- JS values
\* A month reaches the read-side commands either as the option's text (a
\* string), or, defaulted, as a number.  === distinguishes the two.
NumV(n) == [t |-> "number", n |-> n, s |-> ""]
StrV(x) == [t |-> "string", n |-> 0, s |-> x]

\* month || default, for an optional month option
OrElse(opt, dflt) == IF opt = <<>> \/ opt[1] = "" THEN dflt ELSE StrV(opt[1])

\* Number(v)
ToNumber(v) == IF v.t = "number" THEN v.n ELSE MonthNumber(v.s)

\* the property key a value is converted to in obj[v]
PropertyKey(v) ==
  IF v.t = "string" THEN v.s
  ELSE IF v.n \in 1..12
    THEN <<"1", "2", "3", "4", "5", "6", "7", "8", "9", "10", "11", "12">>[v.n]
  ELSE "0"

\* Math.round(num / den) for num >= 0, den > 0
Round(num, den) == (2 * num + den) \div (2 * den)

\* expenses.reduce((sum, expense) => sum + expense.amount, 0)
RECURSIVE SumAmounts(_)
SumAmounts(expenses) ==
  IF expenses = <<>> THEN 0 ELSE expenses[1].amount + SumAmounts(Tail(expenses))

\* data.budgets?.[year]?.[key] || 0
BudgetOf(data, key) ==
  IF ~data.budgets.present THEN 0
  ELSE IF CurrentYear \notin DOMAIN data.budgets.byYear THEN 0
  ELSE IF key \notin DOMAIN data.budgets.byYear[CurrentYear] THEN 0
  ELSE data.budgets.byYear[CurrentYear][key]

\* expenseDate.getMonth() + 1 === m && expenseDate.getFullYear() === year
InMonthOfYear(e, m) == NumV(e.date.month) = m /\ e.date.year = CurrentYear

\* expenseDate.getMonth() + 1 === monthNum
InMonth(e, monthNum) == e.date.month = monthNum

\* ---------------------------------------------------------- budget status
ProgressSize == 10

\* the warning printed after the figures
Warning(budget, totalSpent) ==
  IF budget - totalSpent < 0 THEN "exceeded"
  ELSE IF totalSpent * 100 > 80 * budget THEN "near-limit"
  ELSE "ok"

\* The budgets of the ledgers the reports run on divide 100 * spent, so
\* (totalSpent / budget) * 100 is the integer computed here.
CheckBudgetStatus(monthOpt) ==
  LET f0 == Constructor(file)
  IN  /\ Idle
      /\ UNCHANGED <<assigned, everIds, clock, procs>>
      /\ \E rf \in ReadFaultChoices :
           LET r == ReadData(f0, rf)
               data == r.data
               currentMonth == OrElse(monthOpt, NumV(CurrentMonth))
               budget == BudgetOf(data, PropertyKey(currentMonth))
               monthlyExpenses ==
                 SelectSeq(data.expenses, LAMBDA e : InMonthOfYear(e, currentMonth))
               totalSpent == SumAmounts(monthlyExpenses)
               filled == Round(totalSpent * ProgressSize, budget)
               status == [op |-> "budgetStatus", shown |-> "status", month |-> currentMonth,
                          monthNum |-> ToNumber(currentMonth), selected |-> monthlyExpenses,
                          budget |-> budget, spent |-> totalSpent,
                          remaining |-> budget - totalSpent,
                          usedPct |-> (totalSpent * 100) \div budget,
                          warning |-> Warning(budget, totalSpent)]
           IN  IF ~r.ok THEN
                 /\ Fail("budgetStatus", f0, f0.doc, "StorageError", r.why,
                         IF rf THEN "read" ELSE "none", FALSE)
                 /\ out' = NoOutput
               ELSE IF budget = 0 THEN
                 /\ Done("budgetStatus", f0)
                 /\ out' = [op |-> "budgetStatus", shown |-> "noBudget",
                            month |-> currentMonth]
               ELSE IF ProgressSize - filled < 0 THEN
                 \* progressCircle: '-'.repeat(empty) with empty < 0
                 /\ Fail("budgetStatus", f0, f0.doc, "RangeError", "ProgressCircle",
                         "none", FALSE)
                 /\ out' = [op |-> "budgetStatus", shown |-> "header",
                            month |-> currentMonth]
               ELSE IF monthlyExpenses # <<>> THEN
                 \* getDailySpending: formatDate(d) splits a Date object
                 /\ Fail("budgetStatus", f0, f0.doc, "TypeError", "DailySpending",
                         "none", FALSE)
                 /\ out' = status
               ELSE
                 /\ Done("budgetStatus", f0)
                 /\ out' = status

\* ------------------------------------------------------- month comparison
\* categoryTotals[c] = (categoryTotals[c] || 0) + amount, over the expenses
CategoryTotals(expenses) ==
  [c \in {expenses[i].category : i \in 1..Len(expenses)} |->
     SumAmounts(SelectSeq(expenses, LAMBDA e : e.category = c))]

\* calculateStats(expenses)
CalculateStats(expenses) ==
  [total |-> SumAmounts(expenses), categoryTotals |-> CategoryTotals(expenses)]

\* ((difference / total1) * 100).toFixed(1): the text printed.  Division by
\* zero yields Infinity, or NaN for 0 / 0; a finite quotient is kept in
\* tenths of a percent.
PercentChange(difference, total1) ==
  IF total1 = 0
    THEN IF difference = 0 THEN [text |-> "NaN", tenths |-> 0]
         ELSE [text |-> "Infinity", tenths |-> 0]
  ELSE [text |-> "number",
        tenths |-> IF difference >= 0 THEN Round(difference * 1000, total1)
                   ELSE 0 - Round((0 - difference) * 1000, total1)]

\* the per-category lines: amounts of both months, absent counting as 0
\* variant: the change is reported as a magnitude
CategoryComparisonAbs(totals1, totals2) ==
  [c \in (DOMAIN totals1) \cup (DOMAIN totals2) |->
     LET amount1 == IF c \in DOMAIN totals1 THEN totals1[c] ELSE 0
         amount2 == IF c \in DOMAIN totals2 THEN totals2[c] ELSE 0
     IN  [amount1 |-> amount1, amount2 |-> amount2,
          change |-> IF amount2 >= amount1 THEN amount2 - amount1 ELSE amount1 - amount2]]

\* the per-category lines: amounts of both months, absent counting as 0
CategoryComparison(totals1, totals2) ==
  [c \in (DOMAIN totals1) \cup (DOMAIN totals2) |->
     LET amount1 == IF c \in DOMAIN totals1 THEN totals1[c] ELSE 0
         amount2 == IF c \in DOMAIN totals2 THEN totals2[c] ELSE 0
     IN  [amount1 |-> amount1, amount2 |-> amount2, change |-> amount2 - amount1]]

\* the report compareMonths prints for the months m1 and m2 (option texts)
CompareReport(data, m1, m2) ==
  LET monthExpenses(m) ==
        SelectSeq(data.expenses, LAMBDA e : InMonthOfYear(e, NumV(ToNumber(StrV(m)))))
      stats1 == CalculateStats(monthExpenses(m1))
      stats2 == CalculateStats(monthExpenses(m2))
      difference == stats2.total - stats1.total
  IN  [op |-> "compare",
       monthNum |-> ToNumber(StrV(m1)),
       selected |-> monthExpenses(m1),
       total1 |-> stats1.total,
       total2 |-> stats2.total,
       difference |-> difference,
       percentChange |-> PercentChange(difference, stats1.total),
       categories |-> CategoryComparison(stats1.categoryTotals, stats2.categoryTotals)]

CompareMonths(m1, m2) ==
  LET f0 == Constructor(file)
  IN  /\ Idle
      /\ UNCHANGED <<assigned, everIds, clock, procs>>
      /\ \E rf \in ReadFaultChoices :
           LET r == ReadData(f0, rf)
           IN  IF ~r.ok THEN
                 /\ Fail("compare", f0, f0.doc, "StorageError", r.why,
                         IF rf THEN "read" ELSE "none", FALSE)
                 /\ out' = NoOutput
               ELSE
                 /\ Done("compare", f0)
                 /\ out' = CompareReport(r.data, m1, m2)

\* -------------------------------------------------------------- CSV export
\* A text is handled as the pieces its commas separate, the commas being
\* pieces themselves: 'a,b' is <<"a", ",", "b">>.
Pieces(text) ==
  CASE text = "Rice, beans" -> <<"Rice", ",", " beans">>
    [] text = "cash, tip" -> <<"cash", ",", " tip">>
    [] OTHER -> <<text>>

\* text.replace(/,/g, ';')
ReplaceCommas(pieces) ==
  [i \in 1..Len(pieces) |-> IF pieces[i] = "," THEN ";" ELSE pieces[i]]

\* array.join(sep)
RECURSIVE JoinPieces(_, _)
JoinPieces(fields, sep) ==
  IF fields = <<>> THEN <<>>
  ELSE IF Len(fields) = 1 THEN fields[1]
  ELSE fields[1] \o <<sep>> \o JoinPieces(Tail(fields), sep)

Pad2(n) == IF n < 10 THEN "0" \o ToString(n) ELSE ToString(n)

\* new Date(isoDate).toISOString().split('T')[0]
FormatDate(date) ==
  ToString(date.year) \o "-" \o Pad2(date.month) \o "-" \o Pad2(date.day)

\* amount.toFixed(2), for the whole amounts of the model
ToFixed2(n) == ToString(n) \o ".00"

DEFAULT_PKR_RATE == 280

CsvHeaders ==
  <<"ID", "Date", "Description", "Amount (USD)", "Amount (PKR)", "Category", "Tags",
    "Notes">>

\* one row of convertToCSV, before row.join(',')
CsvRow(e) ==
  << <<ToString(e.id)>>,
     <<FormatDate(e.date)>>,
     Pieces(e.description),
     <<ToFixed2(e.amount)>>,
     <<ToFixed2(e.amount * DEFAULT_PKR_RATE)>>,
     Pieces(e.category),
     JoinPieces([i \in 1..Len(e.tags) |-> Pieces(e.tags[i])], ";"),
     ReplaceCommas(Pieces(e.notes)) >>

\* the lines of the CSV text
ConvertToCSV(expenses) ==
  <<JoinPieces([i \in 1..Len(CsvHeaders) |-> <<CsvHeaders[i]>>], ",")>>
    \o [i \in 1..Len(expenses) |-> JoinPieces(CsvRow(expenses[i]), ",")]

LedgerPath == "data/expenses.json"
BackupPath == LedgerPath \o ".backup"
DefaultFilename == "expenses_" \o FormatDate(Today) \o ".csv"
OutputPathInputs == {LedgerPath, BackupPath, "out.csv"}

\* fs.writeFile(filePath, csv): a CSV text is not a JSON document
WriteCsv(f, filePath) ==
  /\ file' = IF filePath = LedgerPath THEN CorruptFile ELSE f
  /\ backup' = IF filePath = BackupPath THEN CorruptFile ELSE backup
  /\ res' = [op |-> "export", kind |-> "ok", why |-> "none", fault |-> "none",
             dirty |-> FALSE, wrote |-> FALSE]
  /\ faults' = faults

ExportExpenses(monthOpt, outputPath) ==
  LET f0 == Constructor(file)
      filePath == IF outputPath # <<>> /\ outputPath[1] # ""
                    THEN outputPath[1] ELSE DefaultFilename
      filtered == monthOpt # <<>> /\ monthOpt[1] # ""
      monthNum == IF filtered THEN MonthNumber(monthOpt[1]) ELSE 0
  IN  /\ Idle
      /\ UNCHANGED <<assigned, everIds, clock, procs>>
      /\ \E rf \in ReadFaultChoices :
           LET r == ReadData(f0, rf)
               expenses == IF filtered
                             THEN SelectSeq(r.data.expenses, LAMBDA e : InMonth(e, monthNum))
                             ELSE r.data.expenses
           IN  IF ~r.ok THEN
                 /\ Fail("export", f0, f0.doc, "StorageError", r.why,
                         IF rf THEN "read" ELSE "none", FALSE)
                 /\ out' = NoOutput
               ELSE IF filtered /\ (monthNum < 1 \/ monthNum > 12) THEN
                 /\ Fail("export", f0, f0.doc, "ValidationError", "MonthInvalid",
                         "none", FALSE)
                 /\ out' = NoOutput
               ELSE IF expenses = <<>> THEN
                 /\ Done("export", f0)
                 /\ out' = IF filtered
                              THEN [op |-> "export", shown |-> "nothing",
                                    monthNum |-> monthNum, selected |-> expenses]
                              ELSE [op |-> "export", shown |-> "nothing",
                                    selected |-> expenses]
               ELSE IF \E i \in 1..Len(expenses) : "tags" \notin DOMAIN expenses[i] THEN
                 \* expense.tags.join on an expense the dashboard stored
                 /\ Fail("export", f0, f0.doc, "TypeError", "TagsMissing", "none", FALSE)
                 /\ out' = NoOutput
               ELSE
                 /\ WriteCsv(f0, filePath)
                 /\ out' = IF filtered
                              THEN [op |-> "export", shown |-> "csv", monthNum |-> monthNum,
                                    path |-> filePath,
                                    selected |-> expenses, csv |-> ConvertToCSV(expenses)]
                              ELSE [op |-> "export", shown |-> "csv",
                                    path |-> filePath,
                                    selected |-> expenses, csv |-> ConvertToCSV(expenses)]

\* ------------------------------------------------------------ daily figures
\* the calendar days of the expenses, in the order in which forEach first
\* meets them: the key order of dailyExpenses / dailyTotals
RECURSIVE DayOrder(_)
DayOrder(expenses) ==
  IF expenses = <<>> THEN <<>>
  ELSE LET rest == DayOrder(SubSeq(expenses, 1, Len(expenses) - 1))
           date == expenses[Len(expenses)].date
       IN  IF \E i \in 1..Len(rest) : rest[i] = date THEN rest ELSE Append(rest, date)

\* dailyExpenses[date]
DayTotal(expenses, date) ==
  SumAmounts(SelectSeq(expenses, LAMBDA e : e.date = date))

\* Object.entries(dailyExpenses).sort(([, a], [, b]) => b - a)[0]: the sort
\* is stable, so among the days of the largest total the first key wins
PeakDay(expenses) ==
  LET days == DayOrder(expenses)
      top(i) == \A j \in 1..Len(days) :
                  DayTotal(expenses, days[j]) <= DayTotal(expenses, days[i])
      first == CHOOSE i \in 1..Len(days) : top(i) /\ \A j \in 1..(i - 1) : ~top(j)
  IN  [date |-> days[first], total |-> DayTotal(expenses, days[first])]

\* the day count of a date (days since 1970-01-01), which orders the dates
\* as their YYYY-MM-DD texts are ordered and steps by 1 as setDate(+1) does
DayNumber(date) ==
  LET y == IF date.month <= 2 THEN date.year - 1 ELSE date.year
      era == y \div 400
      yoe == y - era * 400
      mp == IF date.month > 2 THEN date.month - 3 ELSE date.month + 9
      doy == (153 * mp + 2) \div 5 + date.day - 1
      doe == yoe * 365 + yoe \div 4 - yoe \div 100 + doy
  IN  era * 146097 + doe - 719468

\* getDailySpending of the category commands: totals per day, then one
\* entry for every day from the first to the last
GetDailySpending(expenses) ==
  LET days == {DayNumber(expenses[i].date) : i \in 1..Len(expenses)}
      startDate == CHOOSE d \in days : \A x \in days : d <= x
      endDate == CHOOSE d \in days : \A x \in days : d >= x
      dailyTotals(n) == SumAmounts(SelectSeq(expenses, LAMBDA e : DayNumber(e.date) = n))
  IN  IF days = {} THEN <<>>
      ELSE [i \in 1..(endDate - startDate + 1) |-> dailyTotals(startDate + i - 1)]

\* ------------------------------------------------------------------ summary
Summary(monthOpt) ==
  LET f0 == Constructor(file)
      filtered == monthOpt # <<>> /\ monthOpt[1] # ""
      monthNum == IF filtered THEN MonthNumber(monthOpt[1]) ELSE 0
  IN  /\ Idle
      /\ UNCHANGED <<assigned, everIds, clock, procs>>
      /\ \E rf \in ReadFaultChoices :
           LET r == ReadData(f0, rf)
               monthlyExpenses == SelectSeq(r.data.expenses, LAMBDA e : InMonth(e, monthNum))
           IN  IF ~r.ok THEN
                 /\ Fail("summary", f0, f0.doc, "StorageError", r.why,
                         IF rf THEN "read" ELSE "none", FALSE)
                 /\ out' = NoOutput
               ELSE IF ~filtered THEN
                 /\ Done("summary", f0)
                 /\ out' = [op |-> "summary", total |-> SumAmounts(r.data.expenses)]
               ELSE IF monthNum < 1 \/ monthNum > 12 THEN
                 /\ Fail("summary", f0, f0.doc, "ValidationError", "MonthInvalid",
                         "none", FALSE)
                 /\ out' = NoOutput
               ELSE
                 /\ Done("summary", f0)
                 /\ out' = [op |-> "summary", monthNum |-> monthNum,
                            selected |-> monthlyExpenses,
                            total |-> SumAmounts(monthlyExpenses),
                            categoryTotals |-> CategoryTotals(monthlyExpenses)]

\* -------------------------------------------------------- category expenses
CategoryExpenses(name, monthOpt) ==
  LET f0 == Constructor(file)
      filtered == monthOpt # <<>> /\ monthOpt[1] # ""
      monthNum == IF filtered THEN MonthNumber(monthOpt[1]) ELSE 0
  IN  /\ Idle
      /\ UNCHANGED <<assigned, everIds, clock, procs>>
      /\ \E rf \in ReadFaultChoices :
           LET r == ReadData(f0, rf)
               data == r.data
               ofCategory == SelectSeq(data.expenses, LAMBDA e : e.category = name)
               expenses == IF filtered
                             THEN SelectSeq(ofCategory, LAMBDA e : InMonth(e, monthNum))
                             ELSE ofCategory
               shown == IF expenses = <<>> THEN "nothing" ELSE "expenses"
           IN  IF ~r.ok THEN
                 /\ Fail("categoryExpenses", f0, f0.doc, "StorageError", r.why,
                         IF rf THEN "read" ELSE "none", FALSE)
                 /\ out' = NoOutput
               ELSE IF ~(data.categories.present /\ name \in data.categories.keys) THEN
                 /\ Fail("categoryExpenses", f0, f0.doc, "ValidationError",
                         "CategoryNotFound", "none", FALSE)
                 /\ out' = NoOutput
               ELSE IF filtered /\ (monthNum < 1 \/ monthNum > 12) THEN
                 /\ Fail("categoryExpenses", f0, f0.doc, "ValidationError",
                         "MonthInvalid", "none", FALSE)
                 /\ out' = NoOutput
               ELSE
                 /\ Done("categoryExpenses", f0)
                 /\ out' = IF filtered
                              THEN [op |-> "categoryExpenses", shown |-> shown,
                                    category |-> name, monthNum |-> monthNum,
                                    selected |-> expenses, total |-> SumAmounts(expenses),
                                    daily |-> GetDailySpending(expenses)]
                              ELSE [op |-> "categoryExpenses", shown |-> shown,
                                    category |-> name,
                                    selected |-> expenses, total |-> SumAmounts(expenses),
                                    daily |-> GetDailySpending(expenses)]

\* ------------------------------------------------------------ monthly report
MonthlyReport(monthOpt) ==
  LET f0 == Constructor(file)
  IN  /\ Idle
      /\ UNCHANGED <<assigned, everIds, clock, procs>>
      /\ \E rf \in ReadFaultChoices :
           LET r == ReadData(f0, rf)
               data == r.data
               currentMonth == OrElse(monthOpt, NumV(CurrentMonth))
               monthlyExpenses ==
                 SelectSeq(data.expenses, LAMBDA e : InMonthOfYear(e, currentMonth))
               total == SumAmounts(monthlyExpenses)
               budget == BudgetOf(data, PropertyKey(currentMonth))
               report(shown) ==
                 [op |-> "monthlyReport", shown |-> shown, month |-> currentMonth,
                  monthNum |-> ToNumber(currentMonth), selected |-> monthlyExpenses,
                  total |-> total, budget |-> budget,
                  peakDay |-> IF monthlyExpenses = <<>> THEN <<>>
                              ELSE <<PeakDay(monthlyExpenses)>>,
                  categoryTotals |-> CategoryTotals(monthlyExpenses)]
           IN  IF ~r.ok THEN
                 /\ Fail("monthlyReport", f0, f0.doc, "StorageError", r.why,
                         IF rf THEN "read" ELSE "none", FALSE)
                 /\ out' = NoOutput
               ELSE IF monthlyExpenses = <<>> THEN
                 /\ Done("monthlyReport", f0)
                 /\ out' = report("nothing")
               ELSE IF \E i \in 1..Len(monthlyExpenses) :
                         "tags" \notin DOMAIN monthlyExpenses[i] THEN
                 \* expense.tags.length on an expense the dashboard stored
                 /\ Fail("monthlyReport", f0, f0.doc, "TypeError", "TagsMissing",
                         "none", FALSE)
                 /\ out' = report("summary")
               ELSE
                 /\ Done("monthlyReport", f0)
                 /\ out' = report("report")

\* --------------------------------------------------------------- view budget
ViewBudget(monthOpt) ==
  LET f0 == Constructor(file)
      filtered == monthOpt # <<>> /\ monthOpt[1] # ""
      monthNum == IF filtered THEN MonthNumber(monthOpt[1]) ELSE 0
  IN  /\ Idle
      /\ UNCHANGED <<assigned, everIds, clock, procs>>
      /\ \E rf \in ReadFaultChoices :
           LET r == ReadData(f0, rf)
               data == r.data
               noYear == \/ ~data.budgets.present
                         \/ CurrentYear \notin DOMAIN data.budgets.byYear
           IN  IF ~r.ok THEN
                 /\ Fail("viewBudget", f0, f0.doc, "StorageError", r.why,
                         IF rf THEN "read" ELSE "none", FALSE)
                 /\ out' = NoOutput
               ELSE IF noYear THEN
                 /\ Done("viewBudget", f0)
                 /\ out' = [op |-> "viewBudget", shown |-> "noBudgets"]
               ELSE IF ~filtered THEN
                 /\ Done("viewBudget", f0)
                 /\ out' = [op |-> "viewBudget", shown |-> "year",
                            budgets |-> [m \in {n \in 1..12 :
                                                  BudgetOf(data, PropertyKey(NumV(n))) > 0}
                                           |-> BudgetOf(data, PropertyKey(NumV(m)))]]
               ELSE IF monthNum < 1 \/ monthNum > 12 THEN
                 /\ Fail("viewBudget", f0, f0.doc, "ValidationError", "MonthInvalid",
                         "none", FALSE)
                 /\ out' = NoOutput
               ELSE
                 /\ Done("viewBudget", f0)
                 /\ out' = [op |-> "viewBudget", shown |-> "month",
                            budget |-> BudgetOf(data, monthOpt[1])]

\* ------------------------------------------------------- the budget commands
\* `budget set`, `budget view` and `budget status`, the month spelled in
\* the ways Number() reads as 3 or 4
BudgetMonthInputs == {"3", "03", "4"}
BudgetAmountInputs == {50, 60}

NextBudget ==
  \/ \E m \in BudgetMonthInputs, a \in BudgetAmountInputs : SetBudget(m, a)
  \/ \E m \in Optional(BudgetMonthInputs) : ViewBudget(m)
  \/ \E m \in Optional(BudgetMonthInputs) : CheckBudgetStatus(m)
  \/ Exit

SpecBudget == Init /\ [][NextBudget]_vars

\* the dashboard's budget form: Enter in the input box
DashBudgetInputs == {0, 50}

DashSetBudget(selectedCategory, value) ==
  LET f0 == Constructor(file)
  IN  /\ Idle
      /\ UNCHANGED <<assigned, everIds, clock, procs, out>>
      /\ \E rf \in ReadFaultChoices :
           LET data == LoadData(f0, rf)
               data1 == [data EXCEPT !.budgets =
                           [@ EXCEPT !.present = TRUE,
                                     !.byLabel = Put(@, selectedCategory, value)]]
           IN  \E sf \in (IF rf THEN {"none"} ELSE SaveFaultChoices) :
                 LET w == SaveData(f0, data1, sf)
                 IN  /\ file' = w.file
                     /\ backup' = backup
                     /\ res' = [op |-> "dashBudget",
                                kind |-> IF w.ok THEN "ok" ELSE "Error",
                                why |-> IF w.ok THEN "none" ELSE "SaveFailed",
                                fault |-> IF rf THEN "read" ELSE sf,
                                dirty |-> ~w.ok,
                                wrote |-> w.ok]
                     /\ faults' = IF rf \/ sf # "none" THEN faults + 1 ELSE faults

\* the command line's budget commands and the dashboard on the same ledger
NextDashBudget ==
  \/ NextBudget
  \/ \E c \in DashCategoryInputs, v \in DashBudgetInputs : DashSetBudget(c, v)

SpecDashBudget == Init /\ [][NextDashBudget]_vars

\* ------------------------------------------------- ledgers for the reports
\* The reports are run on ledgers the commands can have produced: a default
\* store in which 'food' was registered, expenses were added on several
\* days and a budget was set last.
ReportAmounts == {5, 40, 45, 51}
ReportCategories == {Uncategorized, "food"}
ReportDates ==
  {[year |-> CurrentYear - 1, month |-> CurrentMonth, day |-> 1],
   [year |-> CurrentYear, month |-> CurrentMonth - 1, day |-> 1],
   Today}
ReportBudget == 50
ReportMonthInputs == MonthInputs \cup {"4"}

ReportEntries ==
  [amount : ReportAmounts, category : ReportCategories, date : ReportDates,
   description : {"Lunch"}, tags : {<<>>}, notes : {""}]
\* expenses whose texts hold commas, for the export
ExportEntries ==
  [amount : {5}, category : {"food"},
   date : {[year |-> CurrentYear, month |-> CurrentMonth - 1, day |-> 1], Today},
   description : {"Lunch", "Rice, beans"},
   tags : {<<>>, <<"meals", "work">>},
   notes : {"", "cash, tip"}]

ReportEntrySeqs ==
  UNION {[1..n -> ReportEntries] \cup [1..n -> ExportEntries] : n \in 0..MaxReportExpenses}

RECURSIVE PushAll(_, _, _)
PushAll(data, entries, i) ==
  IF i > Len(entries) THEN data
  ELSE PushAll(PushExpense(data,
                 [id |-> data.metadata.lastId + 1, strId |-> FALSE,
                  description |-> entries[i].description, amount |-> entries[i].amount,
                  category |-> entries[i].category, date |-> entries[i].date,
                  tags |-> entries[i].tags, notes |-> entries[i].notes]),
               entries, i + 1)

Registered == [DefaultData EXCEPT !.categories.keys = {"food"}]

InitReport ==
  /\ \/ /\ file \in {AbsentFile, OkFile(DefaultData)}
        /\ backup = AbsentFile
     \/ \E entries \in ReportEntrySeqs :
          LET data == PushAll(Registered, entries, 1)
          IN  /\ file = OkFile(WithBudget(data, "4", ReportBudget))
              /\ backup = OkFile(data)
  /\ res = [op |-> "none", kind |-> "ok", why |-> "none", fault |-> "none", dirty |-> FALSE, wrote |-> FALSE]
  /\ assigned = [i \in 1..Len(file.doc.expenses) |-> i]
  /\ everIds = 1..Len(file.doc.expenses)
  /\ faults = 0
  /\ clock = 0
  /\ procs = [p \in Procs |-> NotStarted]
  /\ out = NoOutput

NextReport ==
  \/ \E m \in Optional(ReportMonthInputs) : CheckBudgetStatus(m)
  \/ \E m1 \in ReportMonthInputs, m2 \in ReportMonthInputs : CompareMonths(m1, m2)
  \/ \E m \in Optional(ReportMonthInputs), o \in Optional(OutputPathInputs) :
       ExportExpenses(m, o)
  \/ \E m \in Optional(ReportMonthInputs) : Summary(m)
  \/ \E n \in ReportCategories, m \in Optional(ReportMonthInputs) : CategoryExpenses(n, m)
  \/ \E m \in Optional(ReportMonthInputs) : MonthlyReport(m)
  \/ \E m \in Optional(ReportMonthInputs) : ViewBudget(m)
  \/ List
  \/ Exit

SpecReport == InitReport /\ [][NextReport]_vars

\* ---------------------------------------------- ledgers for the daily figures
\* expenses of the first days of the current month, stored in any order,
\* with a budget they stay below
DailyAmounts == {5, 10}
DailyDates == {[year |-> CurrentYear, month |-> CurrentMonth, day |-> d] : d \in 1..Today.day}
DailyBudget == 100
DailyEntries ==
  [amount : DailyAmounts, category : {"food"}, date : DailyDates,
   description : {"Lunch"}, tags : {<<>>}, notes : {""}]

InitDaily ==
  /\ \E n \in 0..MaxDailyExpenses : \E entries \in [1..n -> DailyEntries] :
       LET data == PushAll(Registered, entries, 1)
       IN  /\ file = OkFile(WithBudget(data, "4", DailyBudget))
           /\ backup = OkFile(data)
  /\ res = [op |-> "none", kind |-> "ok", why |-> "none", fault |-> "none", dirty |-> FALSE, wrote |-> FALSE]
  /\ assigned = [i \in 1..Len(file.doc.expenses) |-> i]
  /\ everIds = 1..Len(file.doc.expenses)
  /\ faults = 0
  /\ clock = 0
  /\ procs = [p \in Procs |-> NotStarted]
  /\ out = NoOutput

NextDaily ==
  \/ \E m \in Optional({"4"}) : MonthlyReport(m)
  \/ \E m \in Optional({"4"}) : CheckBudgetStatus(m)
  \/ \E m \in Optional({"4"}) : CategoryExpenses("food", m)
  \/ Exit

SpecDaily == InitDaily /\ [][NextDaily]_vars

\* ================================================================ claims
\* C1: across add, update and delete invocations run one after another on
\* the same ledger, every id handed out by add is strictly greater than
\* every id handed out by an earlier add, deleted expenses included.
C1_IdsStrictlyIncreasing ==
  \A i, j \in 1..Len(assigned) : i < j => assigned[i] < assigned[j]

\* two ids were handed out and the expense that got the first is gone
C1_Witness ==
  /\ Len(assigned) >= 2
  /\ file.kind = "ok"
  /\ \A i \in 1..Len(file.doc.expenses) : file.doc.expenses[i].id # assigned[1]

\* C2: metadata.lastId is at least the id of every expense stored and of
\* every expense that was ever stored, and no update or delete invocation
\* lowers it.
C2_LastIdHighWater ==
  /\ [](file.kind = "ok" =>
          \A id \in everIds \cup {file.doc.expenses[i].id : i \in 1..Len(file.doc.expenses)} :
            file.doc.metadata.present /\ file.doc.metadata.lastId >= id)
  /\ [][(res'.op \in {"update", "delete"} /\ file.kind = "ok" /\ file'.kind = "ok")
          => file'.doc.metadata.lastId >= file.doc.metadata.lastId]_vars

\* a delete went through after an id had been handed out: the expense is
\* gone and the mark still stands at its id
C2_Witness ==
  /\ res.op = "delete"
  /\ res.kind = "ok"
  /\ everIds # {}
  /\ file.doc.expenses = <<>>
  /\ file.doc.metadata.lastId \in everIds

C5_UnregisteredCategoryRejected ==
  [][\A d \in DescInputs, a \in AmountInputs :
       (/\ Add(d, a, "transport")
        /\ Constructor(file).kind = "ok"
        /\ res'.fault = "none")
       => /\ res'.kind = "ValidationError"
          /\ file' = Constructor(file)
    ]_vars

\* C6: an invocation that finds no ledger file leaves behind the store
\* with empty expenses, categories and budgets and lastId = 0.
C6_AbsentCreatesDefault ==
  [][(file.kind = "absent" /\ res'.op = "list" /\ res'.kind = "ok")
       => file' = OkFile(DefaultData)]_vars

\* C7: when writeData has succeeded, the backup holds the document that
\* was persisted when the invocation began.
C7_BackupIsPreviousGeneration ==
  [][(Idle /\ res'.wrote /\ res'.op # "dashAdd")
       => (file'.kind = "ok" /\ backup' = Constructor(file))]_vars

\* C8: when the read or the write of the backup step fails, the invocation
\* ends in a StorageError and the document is not replaced.
C8_BackupFailureIsFatal ==
  [][(res'.fault \in {"bkread", "bkwrite"})
       => (res'.kind = "StorageError" /\ file' = Constructor(file))]_vars

\* C9: an add, update, delete, addCategory, deleteCategory or setBudget
\* invocation that ends in an error raised before the write leaves the
\* document it found exactly as it was.
C9_ErrorLeavesDocument ==
  [][(/\ Idle
      /\ file.kind # "absent"
      /\ res'.op \in {"add", "update", "delete", "addCategory", "deleteCategory",
                      "setBudget"}
      /\ res'.kind # "ok"
      /\ res'.why # "WriteFailed")
       => file' = file]_vars

\* an update was rejected after it had already changed the expense in memory
C9_Witness ==
  /\ res.op = "update"
  /\ res.kind = "ValidationError"
  /\ res.dirty

\* C10: an invocation that reads a document which is not well-formed ends
\* in a StorageError and replaces neither the document nor the backup.
C10_CorruptAborts ==
  [][(/\ Idle
      /\ file.kind = "corrupt"
      /\ res'.op # "none"
      /\ res'.why \notin {"IdInvalid", "NameRequired", "MonthInvalid", "BudgetInvalid",
                          "DescRequired", "AmountInvalid"})
       => (res'.kind = "StorageError" /\ file' = file /\ backup' = backup)]_vars

\* C11: with command-line processes interleaving their reads and writes,
\* a successful write replaces the whole document by what the writer holds
\* in memory (what it read plus its own change), so a change another
\* process persisted after the writer's read is lost although both report
\* success.
C11_LastWriteWins ==
  [][\A p \in Procs :
       (RaceAddWrite(p) /\ procs'[p].kind = "ok") => file' = OkFile(procs[p].data)
    ]_vars

\* two invocations have both reported success with an id, and the document
\* holds one expense
C11_Witness ==
  /\ \A p \in {1, 2} : /\ procs[p].pc = "done"
                       /\ procs[p].kind = "ok"
                       /\ procs[p].expense.id # 0
  /\ Len(assigned) = 2
  /\ file.kind = "ok"
  /\ Len(file.doc.expenses) = 1

\* C12: checkBudgetStatus for a month m in 1..12, defaulted or passed as
\* the command line's option text, on a readable ledger: with a budget
\* B > 0 for (current year, m) it reports remaining = B - S and
\* usedPct = S / B * 100, S being the sum of the amounts of the expenses
\* dated in (current year, m); with no budget it reports that none is set.
C12_BudgetStatusFigures ==
  [][\A mo \in Optional(ReportMonthInputs) :
       LET data == file.doc
           m == IF mo = <<>> THEN CurrentMonth ELSE MonthNumber(mo[1])
           B == BudgetOf(data, PropertyKey(NumV(m)))
           S == SumAmounts(SelectSeq(data.expenses,
                  LAMBDA e : e.date.year = CurrentYear /\ e.date.month = m))
       IN  (/\ CheckBudgetStatus(mo)
            /\ file.kind = "ok"
            /\ res'.fault = "none"
            /\ m \in 1..12)
           => IF B > 0
                THEN /\ out'.shown = "status"
                     /\ out'.remaining = B - S
                     /\ out'.usedPct * B = S * 100
                ELSE out'.shown = "noBudget"
    ]_vars

\* C13: whenever checkBudgetStatus finds a budget > 0 it shows exactly one
\* classification: 'exceeded' when remaining < 0, 'near-limit' when
\* remaining >= 0 and usedPct > 80, 'ok' otherwise.
C13_BudgetClassification ==
  [][(/\ res'.op = "budgetStatus"
      /\ res'.fault = "none"
      /\ out'.shown # "noBudget")
       => /\ out'.shown = "status"
          /\ out'.warning =
               (IF out'.remaining < 0 THEN "exceeded"
                ELSE IF out'.spent * 100 > 80 * out'.budget THEN "near-limit"
                ELSE "ok")
    ]_vars

\* C14: compareMonths whose first month has total 0, on a readable ledger,
\* ends normally and reports the percentage change as not computed.
C14_PercentChangeOfZero ==
  [][(/\ res'.op = "compare"
      /\ res'.fault = "none"
      /\ res'.kind # "StorageError"
      /\ out'.total1 = 0)
       => /\ res'.kind = "ok"
          /\ out'.percentChange.text = "notComputed"
    ]_vars

\* C20: for months a and b, compareMonths(a, b) lists exactly the
\* categories that appear in either month of the current year, a category
\* absent from a month counts as 0 there, and each category's change is the
\* negation of the change compareMonths(b, a) reports on the same ledger.
C20_CompareSymmetry ==
  [][\A a \in ReportMonthInputs, b \in ReportMonthInputs :
       (CompareMonths(a, b) /\ res'.kind = "ok")
       => LET data == Constructor(file).doc
              fwd == out'.categories
              bwd == CompareReport(data, b, a).categories
              seen(m) == {data.expenses[i].category :
                            i \in {j \in 1..Len(data.expenses) :
                                     /\ data.expenses[j].date.year = CurrentYear
                                     /\ data.expenses[j].date.month = MonthNumber(m)}}
          IN  /\ DOMAIN fwd = seen(a) \cup seen(b)
              /\ DOMAIN bwd = DOMAIN fwd
              /\ \A c \in DOMAIN fwd :
                   /\ fwd[c].change = 0 - bwd[c].change
                   /\ c \notin seen(a) => fwd[c].amount1 = 0
                   /\ c \notin seen(b) => fwd[c].amount2 = 0
    ]_vars

\* a comparison was printed in which a category is absent from the first
\* month and another one from the second
C20_Witness ==
  /\ out.op = "compare"
  /\ \E c \in DOMAIN out.categories :
       out.categories[c].amount1 = 0 /\ out.categories[c].amount2 > 0
  /\ \E c \in DOMAIN out.categories :
       out.categories[c].amount2 = 0 /\ out.categories[c].amount1 > 0

\* C15: an export of N selected expenses yields N + 1 lines, and every
\* data row splits on commas into exactly 8 fields.
C15_CsvShape ==
  [][(res'.op = "export" /\ res'.kind = "ok" /\ out'.shown = "csv")
       => /\ Len(out'.csv) = Len(out'.selected) + 1
          /\ \A i \in 2..Len(out'.csv) :
               Cardinality({j \in 1..Len(out'.csv[i]) : out'.csv[i][j] = ","}) + 1 = 8
    ]_vars
\* C16: every month-filtered operation (summary, export, category expenses,
\* monthly report, month comparison, budget status) asked for month m selects
\* exactly the stored expenses dated in month m of the current year (for
\* category expenses: those of the category among them).
C16_MonthOfCurrentYear ==
  [][(/\ res'.kind = "ok"
      /\ "monthNum" \in DOMAIN out'
      /\ out'.monthNum \in 1..12)
     => LET m == out'.monthNum
            byCategory == "category" \in DOMAIN out'
            name == IF byCategory THEN out'.category ELSE ""
        IN  out'.selected =
              SelectSeq(Constructor(file).doc.expenses,
                        LAMBDA e : /\ e.date.month = m
                                   /\ e.date.year = CurrentYear
                                   /\ (byCategory => e.category = name))
    ]_vars

\* C17: the sentinel category 'uncategorized' is always valid: an add with
\* it never fails the category check ('No categories defined' or 'does not
\* exist'), whatever the stored document, a document without a category
\* registry included.
C17_SentinelAlwaysValid ==
  [][\A d \in DescInputs, a \in AmountInputs :
       Add(d, a, Uncategorized)
       => res'.why \notin {"NoCategories", "CategoryMissing"}
    ]_vars

\* C18: the read-side operations (summary, list, monthly report, month
\* comparison, export, view budget, budget status) leave the ledger and its
\* backup as the invocation found them (the ledger being the one the
\* storage constructor created when there was none), whether they end
\* normally or in an error.
C18_ReadSideFrame ==
  [][(res'.op \in {"summary", "list", "monthlyReport", "compare", "export",
                   "viewBudget", "budgetStatus"})
     => /\ file' = Constructor(file)
        /\ (file.kind # "absent" => file' = file)
        /\ backup' = backup
    ]_vars

C21_PersistedIdsDistinct ==
  file.kind = "ok"
  => \A i, j \in 1..Len(file.doc.expenses) :
       file.doc.expenses[i].id = file.doc.expenses[j].id => i = j

\* C22: initialize() terminates in every state: a process that has called
\* it gets its return, also when the ledger file is absent.
C22_InitializeTerminates ==
  \A p \in Procs : (procs[p].pc = "initialize") ~> (procs[p].pc = "returned")

\* C23: every operation that replaces a readable ledger document, from the
\* command line (writeData) or from the dashboard (saveData), all fs calls
\* working, leaves in the backup the document it replaced.
C23_EveryWriterBacksUp ==
  [][(/\ res'.wrote
      /\ res'.fault = "none"
      /\ Constructor(file).kind = "ok")
     => backup' = Constructor(file)
    ]_vars

\* C24: when the process is killed inside writeData on a readable document
\* D, afterwards the document is complete (D or the new store) or the
\* backup holds D.
C24_CrashKeepsAGeneration ==
  [][(res'.kind = "Crash" /\ Constructor(file).kind = "ok")
     => \/ file'.kind = "ok"
        \/ backup' = Constructor(file)
    ]_vars

\* C25: every stored expense satisfies the rule that add enforces: amount
\* > 0 and a trimmed description of at least 3 characters.
C25_StoredExpensesValid ==
  file.kind = "ok"
  => \A i \in 1..Len(file.doc.expenses) :
       Validate(file.doc.expenses[i].description, file.doc.expenses[i].amount) = "none"

\* C26: after a successful setBudget of month m to a, the table of the
\* current year holds exactly one entry for month Number(m), with amount
\* a, and the entries of the other months are as before; a viewBudget of a
\* month shows the amount last set for it, however the month is spelled.
C26_OneBudgetPerMonth ==
  [][LET before == IF Constructor(file).kind = "ok"
                     /\ Constructor(file).doc.budgets.present
                     /\ CurrentYear \in DOMAIN Constructor(file).doc.budgets.byYear
                   THEN Constructor(file).doc.budgets.byYear[CurrentYear] ELSE EmptyFn
         entries(table, n) == {k \in DOMAIN table : MonthNumber(k) = n}
     IN  /\ \A m \in BudgetMonthInputs, a \in BudgetAmountInputs :
              (SetBudget(m, a) /\ res'.kind = "ok")
              => LET after == file'.doc.budgets.byYear[CurrentYear]
                 IN  /\ Cardinality(entries(after, MonthNumber(m))) = 1
                     /\ \A k \in entries(after, MonthNumber(m)) : after[k] = a
                     /\ \A k \in DOMAIN after :
                          MonthNumber(k) # MonthNumber(m)
                          => k \in DOMAIN before /\ after[k] = before[k]
         /\ \A m \in BudgetMonthInputs :
              (ViewBudget(<<m>>) /\ res'.kind = "ok" /\ out'.shown = "month")
              => \A k \in entries(before, MonthNumber(m)) : out'.budget = before[k]
    ]_vars

\* C27: in every persisted document budgets maps a year to a table from a
\* month 1..12 to an amount > 0: it has no other key and no amount <= 0.
C27_BudgetsWellKeyed ==
  file.kind = "ok"
  => LET budgets == file.doc.budgets
     IN  /\ budgets.byLabel = EmptyFn
         /\ \A y \in DOMAIN budgets.byYear :
              \A k \in DOMAIN budgets.byYear[y] :
                /\ MonthNumber(k) \in 1..12
                /\ budgets.byYear[y][k] > 0

\* C28: a listCategories that succeeds leaves a registry that is not empty
\* (the seed categories are installed and persisted when there were none,
\* the registry absent or present but empty), and writes nothing when the
\* store already had categories.
C28_ListCategoriesSeeds ==
  [][(res'.op = "listCategories" /\ res'.kind = "ok")
     => /\ file'.kind = "ok"
        /\ file'.doc.categories.present
        /\ file'.doc.categories.keys # {}
        /\ (Constructor(file).doc.categories.keys # {} => ~res'.wrote)
    ]_vars

\* C29: the peak day of the monthly report is a day of the month whose
\* total is the largest, and among the days with that total the earliest.
C29_PeakDayEarliestOfMax ==
  [][(res'.op = "monthlyReport" /\ res'.kind = "ok" /\ out'.op = "monthlyReport"
        /\ out'.shown = "report" /\ out'.selected # <<>>)
     => LET expenses == out'.selected
            peak == out'.peakDay[1]
            dates == {expenses[i].date : i \in 1..Len(expenses)}
        IN  /\ peak.date \in dates
            /\ peak.total = DayTotal(expenses, peak.date)
            /\ \A d \in dates :
                 /\ DayTotal(expenses, d) <= peak.total
                 /\ (DayTotal(expenses, d) = peak.total => peak.date.day <= d.day)
    ]_vars

\* C30: whenever budget status or category expenses has a non-empty set of
\* expenses to aggregate by day, the command completes without error and
\* its daily series has one entry for every calendar day from the earliest
\* to the latest day present, each the sum of that day's amounts (0 for a
\* day without expenses).
C30_DailySeriesDense ==
  [][(res'.op \in {"budgetStatus", "categoryExpenses"} /\ res'.fault = "none"
        /\ out'.op = res'.op /\ out'.shown \in {"status", "expenses"}
        /\ out'.selected # <<>>)
     => LET expenses == out'.selected
            numbers == {DayNumber(expenses[i].date) : i \in 1..Len(expenses)}
            lo == CHOOSE n \in numbers : \A x \in numbers : n <= x
            hi == CHOOSE n \in numbers : \A x \in numbers : n >= x
            ofDay(n) == {i \in 1..Len(expenses) : DayNumber(expenses[i].date) = n}
        IN  /\ res'.kind = "ok"
            /\ Len(out'.daily) = hi - lo + 1
            /\ \A k \in 1..(hi - lo + 1) :
                 out'.daily[k] =
                   SumAmounts(SelectSeq(expenses, LAMBDA e : DayNumber(e.date) = lo + k - 1))
    ]_vars

====
